---------------------------- MODULE Spec2Model ----------------------------
(***************************************************************************)
(* A model of the Chip-8 interpreter of src/src/chip_8.rs, driven by the   *)
(* frame loop of src/src/main.rs.                                          *)
(*                                                                         *)
(* The machine (struct Chip8) is the record held by the variable chip8.    *)
(* Every arm of the match in Chip8::cycle is an operator from the machine  *)
(* before the arm to an outcome: the machine after it and the panic, if    *)
(* any, that stopped it.  Rust panics on an index out of bounds in every   *)
(* build, and on an arithmetic overflow only in a build with overflow      *)
(* checks (the debug profile); without them the arithmetic wraps.  The     *)
(* build is chosen once, in Init, as the variable overflow_checks.         *)
(*                                                                         *)
(* The two large arrays, memory ([u8; 4096]) and screen ([u8; 2048]), are  *)
(* held as the function from the indices of their non-zero bytes to those  *)
(* bytes: Get reads an element, Put writes one.  Both start all zero.      *)
(***************************************************************************)
EXTENDS Integers, Sequences, FiniteSets

VARIABLES
    chip8,            \* the Chip8 instance of main.rs (let mut chip8)
    keyboard_state,   \* main's KeyboardState, handed to frame and cycle
    in_frame,         \* TRUE while a call of Chip8::frame is running
    cycles_done,      \* iterations of frame's for loop completed
    panic,            \* NoPanic, or the panic that ended the host process
    overflow_checks,  \* the build: TRUE when arithmetic overflow panics
    last_cycle,       \* history: what the most recent cycle did, from where
    call_sites,       \* history: the addresses of the 2nnn not yet returned from
    rom,              \* history: the bytes main read and handed to Chip8::new
    cycles_run,       \* history: the calls of cycle so far, up to MaxCyclesCounted
    key_wait          \* history: the timers when the Fx0A ran, the frames since

vars == <<chip8, keyboard_state, in_frame, cycles_done, panic, overflow_checks,
          last_cycle, call_sites, rom, cycles_run, key_wait>>

---------------------------------------------------------------------------
(* Constants of chip_8.rs *)

SCREEN_WIDTH == 64

SCREEN_HEIGHT == 32

SCREEN_MEM_SIZE == SCREEN_WIDTH * SCREEN_HEIGHT

FONT_ADDRESS == 80

FONT_DATA ==
    << 240, 144, 144, 144, 240,   32,  96,  32,  32, 112,
       240,  16, 240, 128, 240,  240,  16, 240,  16, 240,
       144, 144, 240,  16,  16,  240, 128, 240,  16, 240,
       240, 128, 240, 144, 240,  240,  16,  32,  64,  64,
       240, 144, 240, 144, 240,  240, 144, 240,  16, 240,
       240, 144, 240, 144, 144,  224, 144, 224, 144, 224,
       240, 128, 128, 128, 240,  224, 144, 144, 144, 224,
       240, 128, 240, 128, 240,  240, 128, 240, 128, 128 >>

ROM_START_ADDRESS == 512

MEMORY_SIZE == 4096

NUM_REGISTERS == 16

STACK_SIZE == 16

NUM_KEYS == 16

CYCLES_PER_FRAME == 8

---------------------------------------------------------------------------
(* Rust's integer and indexing semantics *)

U8 == 256

U16 == 65536

\* usize::MAX, the value 0usize - 1 wraps to.  It is beyond TLC's integers
\* and is written as the two's-complement reading of its bits.
USIZE_MAX == 0 - 1

NoPanic == "none"

MemoryIndexPanic == "index out of bounds: memory"

StackIndexPanic == "index out of bounds: stack"

KeyboardIndexPanic == "index out of bounds: keyboard_state"

AddOverflowPanic == "attempt to add with overflow"

SubOverflowPanic == "attempt to subtract with overflow"

\* array[index] of an array of len elements panics unless this holds.
InBounds(index, len) == 0 <= index /\ index < len

\* array[index], for an index within the bounds of the array.
Get(array, index) == IF index \in DOMAIN array THEN array[index] ELSE 0

\* The array after array[index] = Value(index) for every index of indices.
Overlay(array, indices, Value(_)) ==
    LET after(index) == IF index \in indices THEN Value(index) ELSE Get(array, index)
    IN [index \in {i \in DOMAIN array \cup indices : after(i) # 0} |-> after(index)]

\* The array after array[index] = value.
Put(array, index, value) ==
    IF Get(array, index) = value THEN array
    ELSE Overlay(array, {index}, LAMBDA i : value)

\* [0; len]
Zeroed == [index \in {} |-> 0]

\* The outcome of a match arm: the machine it leaves, how it ended, and the
\* local increment_pc (let mut increment_pc = 2).
Ok(self) == [chip8 |-> self, panic |-> NoPanic, increment_pc |-> 2]

Panic(self, message) == [chip8 |-> self, panic |-> message, increment_pc |-> 2]

\* increment_pc = 0;
NoIncrement(outcome) == [outcome EXCEPT !.increment_pc = 0]

Bit(a, k) == (a \div (2 ^ k)) % 2

\* a & b, a | b and a ^ b on u8.
BitAnd(a, b) ==
    LET f[k \in 0..8] == IF k = 8 THEN 0
                         ELSE (Bit(a, k) * Bit(b, k)) * (2 ^ k) + f[k + 1]
    IN f[0]

BitOr(a, b) ==
    LET f[k \in 0..8] ==
            IF k = 8 THEN 0
            ELSE (IF Bit(a, k) + Bit(b, k) > 0 THEN 1 ELSE 0) * (2 ^ k) + f[k + 1]
    IN f[0]

BitXor(a, b) ==
    LET f[k \in 0..8] == IF k = 8 THEN 0
                         ELSE ((Bit(a, k) + Bit(b, k)) % 2) * (2 ^ k) + f[k + 1]
    IN f[0]

\* Option<u8>: None is the empty set, Some(reg) the set of reg alone.
None == {}

Some(reg) == {reg}

---------------------------------------------------------------------------
(* Chip8::new *)

\* The two loops of new: the font, then the rom, each byte stored by an
\* indexed write.  A rom longer than the memory past ROM_START_ADDRESS
\* panics at its first byte that does not fit.
NewMemory(rom_data) ==
    LET font == Overlay(Zeroed,
                        {i + FONT_ADDRESS : i \in 0..(Len(FONT_DATA) - 1)},
                        LAMBDA a : FONT_DATA[a - FONT_ADDRESS + 1])
    IN Overlay(font,
               {a \in {i + ROM_START_ADDRESS : i \in 0..(Len(rom_data) - 1)} :
                    InBounds(a, MEMORY_SIZE)},
               LAMBDA a : rom_data[a - ROM_START_ADDRESS + 1])

new(rom_data) ==
    LET self == [ memory                 |-> NewMemory(rom_data),
                  v_registers            |-> [r \in 0..(NUM_REGISTERS - 1) |-> 0],
                  i_register             |-> 0,
                  pc                     |-> ROM_START_ADDRESS,
                  screen                 |-> Zeroed,
                  stack                  |-> [s \in 0..(STACK_SIZE - 1) |-> 0],
                  stack_pointer          |-> 0,
                  sound_timer            |-> 0,
                  delay_timer            |-> 0,
                  waiting_for_key        |-> None,
                  alternative_shift_mode |-> FALSE,
                  cycles_per_frame       |-> CYCLES_PER_FRAME ]
    IN IF InBounds(Len(rom_data) - 1 + ROM_START_ADDRESS, MEMORY_SIZE)
            \/ Len(rom_data) = 0
       THEN [chip8 |-> self, panic |-> NoPanic]
       ELSE [chip8 |-> self, panic |-> MemoryIndexPanic]

---------------------------------------------------------------------------
(* Chip8::cycle: the arms of the match, in the order of the source *)

\* Op00E0 with only the top row of the screen cleared.
Op00E0_ClearsTopRow(self) ==
    Ok([self EXCEPT !.screen =
            [index \in {i \in DOMAIN @ : i >= SCREEN_WIDTH} |-> @[index]]])

\* 00E0: clear screen
Op00E0(self) ==
    Ok([self EXCEPT !.screen = Zeroed])

\* 00EE: return from subroutine.  stack_pointer -= 1 overflows at 0: a panic
\* with overflow checks, and without them a wrap to usize::MAX, which the
\* index into the stack then rejects.
Op00EE(self, checks) ==
    IF self.stack_pointer = 0
    THEN IF checks
         THEN Panic(self, SubOverflowPanic)
         ELSE Panic([self EXCEPT !.stack_pointer = USIZE_MAX], StackIndexPanic)
    ELSE LET sp == self.stack_pointer - 1
         IN IF ~InBounds(sp, STACK_SIZE)
            THEN Panic([self EXCEPT !.stack_pointer = sp], StackIndexPanic)
            ELSE Ok([self EXCEPT !.stack_pointer = sp, !.pc = self.stack[sp]])

\* 1nnn: jump to address nnn
Op1nnn(self, instruction) ==
    NoIncrement(Ok([self EXCEPT !.pc = instruction % 4096]))

\* Op2nnn with the address of the next instruction pushed instead of pc.
Op2nnn_PushesNext(self, instruction) ==
    IF ~InBounds(self.stack_pointer, STACK_SIZE)
    THEN Panic(self, StackIndexPanic)
    ELSE NoIncrement(Ok([self EXCEPT
            !.stack = [@ EXCEPT ![self.stack_pointer] = (self.pc + 2) % U16],
            !.stack_pointer = @ + 1,
            !.pc = instruction % 4096]))

\* 2nnn: call subroutine at nnn
Op2nnn(self, instruction) ==
    IF ~InBounds(self.stack_pointer, STACK_SIZE)
    THEN Panic(self, StackIndexPanic)
    ELSE NoIncrement(Ok([self EXCEPT
            !.stack = [@ EXCEPT ![self.stack_pointer] = self.pc % U16],
            !.stack_pointer = @ + 1,
            !.pc = instruction % 4096]))

\* if condition { self.pc += 2; }
SkipIf(self, condition) ==
    Ok(IF condition THEN [self EXCEPT !.pc = @ + 2] ELSE self)

\* 3xkk: skip next instruction if Vx == kk
Op3xkk(self, x, instr_low) == SkipIf(self, self.v_registers[x] = instr_low)

\* 4xkk: skip next instruction if Vx != kk
Op4xkk(self, x, instr_low) == SkipIf(self, self.v_registers[x] # instr_low)

\* 5xy0: skip next instruction if Vx == Vy
Op5xy0(self, x, y) == SkipIf(self, self.v_registers[x] = self.v_registers[y])

\* self.v_registers[reg] = value;
SetV(self, reg, value) == [self EXCEPT !.v_registers = [@ EXCEPT ![reg] = value]]

\* Op6xkk with the next instruction skipped as well.
Op6xkk_SkipsNext(self, x, instr_low) ==
    Ok([SetV(self, x, instr_low) EXCEPT !.pc = @ + 2])

\* 6xkk: set Vx = kk
Op6xkk(self, x, instr_low) == Ok(SetV(self, x, instr_low))

\* 7xkk: set Vx = Vx + kk (wrapping_add)
Op7xkk(self, x, instr_low) ==
    Ok(SetV(self, x, (self.v_registers[x] + instr_low) % U8))

\* 8xy0: set Vx = Vy
Op8xy0(self, x, y) == Ok(SetV(self, x, self.v_registers[y]))

\* 8xy1: set Vx = Vx | Vy
Op8xy1(self, x, y) ==
    Ok(SetV(self, x, BitOr(self.v_registers[x], self.v_registers[y])))

\* 8xy2: set Vx = Vx & Vy
Op8xy2(self, x, y) ==
    Ok(SetV(self, x, BitAnd(self.v_registers[x], self.v_registers[y])))

\* 8xy3: set Vx = Vx ^ Vy
Op8xy3(self, x, y) ==
    Ok(SetV(self, x, BitXor(self.v_registers[x], self.v_registers[y])))

\* 8xy4: set Vx = Vx + Vy, VF = carry.  The sum is taken first, as u16; VF
\* is written, then Vx.
Op8xy4(self, x, y) ==
    LET result == self.v_registers[x] + self.v_registers[y]
        flagged == SetV(self, 15, (result \div 256) % 2)
    IN Ok(SetV(flagged, x, result % U8))

\* 8xy5: set Vx = Vx - Vy, VF = not borrow.  VF is written first; the
\* subtraction then reads the registers as that write left them.
Op8xy5(self, x, y) ==
    LET flagged == SetV(self, 15,
                        IF self.v_registers[x] > self.v_registers[y] THEN 0 ELSE 1)
    IN Ok(SetV(flagged, x,
               (flagged.v_registers[x] - flagged.v_registers[y]) % U8))

\* 8xy6: set Vx = Vy >> 1, VF = LSB(Vx)
Op8xy6(self, x, y) ==
    LET other == IF self.alternative_shift_mode THEN x ELSE y
        flagged == SetV(self, 15, BitAnd(self.v_registers[other], 1))
    IN Ok(SetV(flagged, x, flagged.v_registers[other] \div 2))

\* 8xy7: set Vx = Vy - Vx, VF = not borrow
Op8xy7(self, x, y) ==
    LET flagged == SetV(self, 15,
                        IF self.v_registers[y] > self.v_registers[x] THEN 1 ELSE 0)
    IN Ok(SetV(flagged, x,
               (flagged.v_registers[y] - flagged.v_registers[x]) % U8))

\* 8xyE: set Vx = Vy << 1, VF = MSB(Vx)
Op8xyE(self, x, y) ==
    LET other == IF self.alternative_shift_mode THEN x ELSE y
        flagged == SetV(self, 15, BitAnd(self.v_registers[other], 128))
    IN Ok(SetV(flagged, x, (flagged.v_registers[other] * 2) % U8))

\* 9xy0: skip next instruction if Vx != Vy
Op9xy0(self, x, y) == SkipIf(self, self.v_registers[x] # self.v_registers[y])

\* Annn: set I = nnn
OpAnnn(self, instruction) == Ok([self EXCEPT !.i_register = instruction % 4096])

\* OpBnnn with Vx added in place of V0, as on the SUPER-CHIP.
OpBnnn_AddsVx(self, instruction) ==
    NoIncrement(Ok([self EXCEPT
        !.pc = (instruction % 4096) + self.v_registers[(instruction \div 256) % 16]]))

\* Bnnn: jump to V0 + nnn
OpBnnn(self, instruction) ==
    NoIncrement(Ok([self EXCEPT !.pc = (instruction % 4096) + self.v_registers[0]]))

\* Cxkk: set Vx = random & kk
OpCxkk(self, x, instr_low, random) == Ok(SetV(self, x, BitAnd(random, instr_low)))

\* Dxyn: the two loops from row iy, column ix on.  Each row is read from
\* memory before its columns; Vx and Vy are read again for every pixel, after
\* the writes of VF the instruction has made so far; Vx + ix and Vy + iy are
\* u8 additions.
RECURSIVE Draw(_, _, _, _, _, _, _)
Draw(self, x, y, low_nibble, iy, ix, checks) ==
    IF iy >= low_nibble THEN Ok(self)
    ELSE IF ~InBounds(self.i_register + iy, MEMORY_SIZE)
    THEN Panic(self, MemoryIndexPanic)
    ELSE IF checks /\ self.v_registers[x] + ix >= U8
    THEN Panic(self, AddOverflowPanic)
    ELSE IF checks /\ self.v_registers[y] + iy >= U8
    THEN Panic(self, AddOverflowPanic)
    ELSE
        LET row == Get(self.memory, self.i_register + iy)
            dx == ((self.v_registers[x] + ix) % U8) % SCREEN_WIDTH
            dy == ((self.v_registers[y] + iy) % U8) % SCREEN_HEIGHT
            index == dy * SCREEN_WIDTH + dx
            prev_pixel == Get(self.screen, index)
            pixel == Bit(row, 7 - ix) * 255
            collided == IF prev_pixel = 255 /\ pixel = 255
                        THEN SetV(self, 15, 1) ELSE self
            drawn == [collided EXCEPT
                        !.screen = Put(@, index, BitXor(prev_pixel, pixel))]
        IN IF ix = 7
           THEN Draw(drawn, x, y, low_nibble, iy + 1, 0, checks)
           ELSE Draw(drawn, x, y, low_nibble, iy, ix + 1, checks)

\* Dxyn: draw n-byte sprite starting at memory location I at (Vx, Vy), set
\* VF = collision.
OpDxyn(self, x, y, low_nibble, checks) ==
    Draw(SetV(self, 15, 0), x, y, low_nibble, 0, 0, checks)

\* Ex9E: skip next instruction if key Vx is pressed
OpEx9E(self, x, keys) ==
    IF ~InBounds(self.v_registers[x], NUM_KEYS)
    THEN Panic(self, KeyboardIndexPanic)
    ELSE SkipIf(self, keys[self.v_registers[x]])

\* ExA1: skip next instruction if key Vx is not pressed
OpExA1(self, x, keys) ==
    IF ~InBounds(self.v_registers[x], NUM_KEYS)
    THEN Panic(self, KeyboardIndexPanic)
    ELSE SkipIf(self, ~keys[self.v_registers[x]])

\* Fx07: set Vx = delay timer
OpFx07(self, x) == Ok(SetV(self, x, self.delay_timer))

\* Fx0A: wait for key press, store pressed key in Vx
OpFx0A(self, x) == Ok([self EXCEPT !.waiting_for_key = Some(x)])

\* Fx15: set delay timer = Vx
OpFx15(self, x) == Ok([self EXCEPT !.delay_timer = self.v_registers[x]])

\* Fx18: set sound timer = Vx
OpFx18(self, x) == Ok([self EXCEPT !.sound_timer = self.v_registers[x]])

\* Fx1E: set I = I + Vx, a u16 addition
OpFx1E(self, x, checks) ==
    LET sum == self.i_register + self.v_registers[x]
    IN IF checks /\ sum >= U16
       THEN Panic(self, AddOverflowPanic)
       ELSE Ok([self EXCEPT !.i_register = sum % U16])

\* Fx29: set I = location of sprite for digit Vx
OpFx29(self, x) ==
    Ok([self EXCEPT !.i_register = FONT_ADDRESS + self.v_registers[x] * 5])

\* self.memory[index] = value, the outcome so far being o
Store(o, index, value) ==
    IF o.panic # NoPanic THEN o
    ELSE IF ~InBounds(index, MEMORY_SIZE) THEN Panic(o.chip8, MemoryIndexPanic)
    ELSE Ok([o.chip8 EXCEPT !.memory = Put(@, index, value)])

\* Fx33: store BCD representation of Vx in memory locations I, I+1, I+2
OpFx33(self, x) ==
    LET vx == self.v_registers[x]
        hundreds == Store(Ok(self), self.i_register, vx \div 100)
        tens == Store(hundreds, self.i_register + 1, (vx \div 10) % 10)
    IN Store(tens, self.i_register + 2, vx % 10)

\* OpFx55 with i_register left past the bytes stored, as on the COSMAC VIP.
OpFx55_AdvancesI(self, x) ==
    LET stored == [self EXCEPT
                     !.memory =
                        Overlay(@, {a \in {self.i_register + i : i \in 0..x} :
                                       InBounds(a, MEMORY_SIZE)},
                                LAMBDA a : self.v_registers[a - self.i_register]),
                     !.i_register = (@ + x + 1) % U16]
    IN IF \A i \in 0..x : InBounds(self.i_register + i, MEMORY_SIZE)
       THEN Ok(stored)
       ELSE Panic(stored, MemoryIndexPanic)

\* Fx55: store registers V0 through Vx in memory starting at location I.
\* The loop stores at rising addresses and stops at the first out of bounds.
OpFx55(self, x) ==
    LET stored == [self EXCEPT !.memory =
                     Overlay(@, {a \in {self.i_register + i : i \in 0..x} :
                                    InBounds(a, MEMORY_SIZE)},
                             LAMBDA a : self.v_registers[a - self.i_register])]
    IN IF \A i \in 0..x : InBounds(self.i_register + i, MEMORY_SIZE)
       THEN Ok(stored)
       ELSE Panic(stored, MemoryIndexPanic)

\* Fx65: read registers V0 through Vx in memory starting at location I
OpFx65(self, x) ==
    LET loaded == [self EXCEPT !.v_registers =
                     [i \in DOMAIN @ |->
                        IF i <= x /\ InBounds(self.i_register + i, MEMORY_SIZE)
                        THEN Get(self.memory, self.i_register + i) ELSE @[i]]]
    IN IF \A i \in 0..x : InBounds(self.i_register + i, MEMORY_SIZE)
       THEN Ok(loaded)
       ELSE Panic(loaded, MemoryIndexPanic)

\* OpUnknown with the error its TODO speaks of raised as a panic.
OpUnknown_Fails(self) == Panic(self, "unknown instruction")

\* _ => { TODO error about unknown instruction }
OpUnknown(self) == Ok(self)

---------------------------------------------------------------------------
(* Chip8::cycle *)

\* The fields decoded from the two bytes at pc (lines 71 to 77).
InstrLow(self) == Get(self.memory, self.pc + 1)

InstrHigh(self) == Get(self.memory, self.pc)

Instruction(self) == InstrLow(self) + InstrHigh(self) * 256

HighNibble(self) == InstrHigh(self) \div 16

LowNibble(self) == InstrLow(self) % 16

X(self) == (Instruction(self) \div 256) % 16

Y(self) == (Instruction(self) \div 16) % 16

\* match high_nibble { ... }
Execute(self, keys, random, checks) ==
    LET instruction == Instruction(self)
        instr_low == InstrLow(self)
        high_nibble == HighNibble(self)
        low_nibble == LowNibble(self)
        x == X(self)
        y == Y(self)
    IN CASE high_nibble = 0 /\ instruction = 224 -> Op00E0(self)
         [] high_nibble = 0 /\ instruction = 238 -> Op00EE(self, checks)
         [] high_nibble = 1 -> Op1nnn(self, instruction)
         [] high_nibble = 2 -> Op2nnn(self, instruction)
         [] high_nibble = 3 -> Op3xkk(self, x, instr_low)
         [] high_nibble = 4 -> Op4xkk(self, x, instr_low)
         [] high_nibble = 5 /\ low_nibble = 0 -> Op5xy0(self, x, y)
         [] high_nibble = 6 -> Op6xkk(self, x, instr_low)
         [] high_nibble = 7 -> Op7xkk(self, x, instr_low)
         [] high_nibble = 8 /\ low_nibble = 0 -> Op8xy0(self, x, y)
         [] high_nibble = 8 /\ low_nibble = 1 -> Op8xy1(self, x, y)
         [] high_nibble = 8 /\ low_nibble = 2 -> Op8xy2(self, x, y)
         [] high_nibble = 8 /\ low_nibble = 3 -> Op8xy3(self, x, y)
         [] high_nibble = 8 /\ low_nibble = 4 -> Op8xy4(self, x, y)
         [] high_nibble = 8 /\ low_nibble = 5 -> Op8xy5(self, x, y)
         [] high_nibble = 8 /\ low_nibble = 6 -> Op8xy6(self, x, y)
         [] high_nibble = 8 /\ low_nibble = 7 -> Op8xy7(self, x, y)
         [] high_nibble = 8 /\ low_nibble = 14 -> Op8xyE(self, x, y)
         [] high_nibble = 9 /\ low_nibble = 0 -> Op9xy0(self, x, y)
         [] high_nibble = 10 -> OpAnnn(self, instruction)
         [] high_nibble = 11 -> OpBnnn(self, instruction)
         [] high_nibble = 12 -> OpCxkk(self, x, instr_low, random)
         [] high_nibble = 13 -> OpDxyn(self, x, y, low_nibble, checks)
         [] high_nibble = 14 /\ instr_low = 158 -> OpEx9E(self, x, keys)
         [] high_nibble = 14 /\ instr_low = 161 -> OpExA1(self, x, keys)
         [] high_nibble = 15 /\ instr_low = 7 -> OpFx07(self, x)
         [] high_nibble = 15 /\ instr_low = 10 -> OpFx0A(self, x)
         [] high_nibble = 15 /\ instr_low = 21 -> OpFx15(self, x)
         [] high_nibble = 15 /\ instr_low = 24 -> OpFx18(self, x)
         [] high_nibble = 15 /\ instr_low = 30 -> OpFx1E(self, x, checks)
         [] high_nibble = 15 /\ instr_low = 41 -> OpFx29(self, x)
         [] high_nibble = 15 /\ instr_low = 51 -> OpFx33(self, x)
         [] high_nibble = 15 /\ instr_low = 85 -> OpFx55(self, x)
         [] high_nibble = 15 /\ instr_low = 101 -> OpFx65(self, x)
         [] OTHER -> OpUnknown(self)

\* FirstPressed scanning from the last key down.
FirstPressed_FromLast(keys) ==
    CHOOSE k \in DOMAIN keys : keys[k] /\ \A j \in DOMAIN keys : j > k => ~keys[j]

\* keyboard_state.iter().position(|k| *k), when it is Some
FirstPressed(keys) == CHOOSE k \in DOMAIN keys : keys[k] /\ \A j \in 0..(k - 1) : ~keys[j]

\* ServiceKeyWait with the program counter advanced while no key is down.
ServiceKeyWait_SkipsAhead(self, keys) ==
    LET reg == CHOOSE r \in self.waiting_for_key : TRUE
    IN IF \E k \in DOMAIN keys : keys[k]
       THEN [SetV(self, reg, FirstPressed(keys)) EXCEPT !.waiting_for_key = None]
       ELSE [self EXCEPT !.pc = @ + 2]

\* if let Some(reg) = self.waiting_for_key { ... }
ServiceKeyWait(self, keys) ==
    LET reg == CHOOSE r \in self.waiting_for_key : TRUE
    IN IF \E k \in DOMAIN keys : keys[k]
       THEN [SetV(self, reg, FirstPressed(keys)) EXCEPT !.waiting_for_key = None]
       ELSE self

\* FetchExecute with the two fetches left unchecked: past the end of memory
\* they read what Get reads there.
FetchExecute_Unchecked(self, keys, random, checks) ==
    LET o == Execute(self, keys, random, checks)
    IN IF o.panic # NoPanic THEN o
       ELSE [o EXCEPT !.chip8.pc = @ + o.increment_pc]

\* The else branch: fetch (memory[pc + 1] is read first), execute, and
\* self.pc += increment_pc.
FetchExecute(self, keys, random, checks) ==
    IF ~InBounds(self.pc + 1, MEMORY_SIZE) \/ ~InBounds(self.pc, MEMORY_SIZE)
    THEN Panic(self, MemoryIndexPanic)
    ELSE LET o == Execute(self, keys, random, checks)
         IN IF o.panic # NoPanic THEN o
            ELSE [o EXCEPT !.chip8.pc = @ + o.increment_pc]

cycle(self, keys, random, checks) ==
    IF self.waiting_for_key # None
    THEN Ok(ServiceKeyWait(self, keys))
    ELSE FetchExecute(self, keys, random, checks)

\* DecrementTimer as a wrapping subtraction.
DecrementTimer_Wrapping(timer) == (timer - 1) % U8

\* The two timer lines of frame.
DecrementTimer(timer) == IF timer > 0 THEN timer - 1 ELSE 0

---------------------------------------------------------------------------
(* The inputs: program images and key states *)

\* How many of OperandValues, RegisterChoices the generated programs draw from.
NumOperands == 4

NumRegisterChoices == 3

OperandValues == <<0, 255, 3, 5, 128, 1, 127, 250>>

RegisterChoices == <<0, 15, 1, 14, 2>>

OperandSet == {OperandValues[i] : i \in 1..NumOperands}

RegisterSet == {RegisterChoices[i] : i \in 1..NumRegisterChoices}

\* The instruction word with the four nibbles a b c d, and with a nibble and
\* a byte, and with a nibble and an address.
W(a, b, c, d) == a * 4096 + b * 256 + c * 16 + d

Wkk(a, x, kk) == a * 4096 + x * 256 + kk

Wnnn(a, nnn) == a * 4096 + nnn

\* The address of the k-th instruction of a program (from 0).
At(k) == ROM_START_ADDRESS + 2 * k

\* A jump to itself, as the k-th instruction: the program's end.
Halt(k) == Wnnn(1, At(k))

\* The bytes of a sequence of instruction words, high byte first.
Bytes(words) ==
    [i \in 1..(2 * Len(words)) |->
        IF i % 2 = 1 THEN words[(i + 1) \div 2] \div 256 ELSE words[i \div 2] % 256]

\* Vx = a; Vy = b; 8xyN; end.
AluRoms ==
    { Bytes(<<Wkk(6, x, a), Wkk(6, y, b), W(8, x, y, n), Halt(3)>>) :
        <<n, x, y, a, b>> \in {4, 5, 7} \X RegisterSet \X RegisterSet
                               \X OperandSet \X OperandSet }

\* Vx = a; Vy = b; I = the font sprite of 2; the same Dxyn twice; end.
DrawTwice(n, x, y, a, b) ==
    Bytes(<<Wkk(6, x, a), Wkk(6, y, b), Wnnn(10, FONT_ADDRESS + 10),
            W(13, x, y, n), W(13, x, y, n), Halt(5)>>)

\* One row at every pair of positions, five rows on the diagonal.
DrawRoms ==
    { DrawTwice(1, x, y, a, b) :
        <<x, y, a, b>> \in RegisterSet \X RegisterSet \X OperandSet \X OperandSet }
    \cup { DrawTwice(5, x, y, a, a) :
        <<x, y, a>> \in RegisterSet \X RegisterSet \X OperandSet }

\* V0 = a; V1 = b; VF = 7; I = nnn; Fx55; Fx65; end.
StoreLoadRoms ==
    { Bytes(<<Wkk(6, 0, a), Wkk(6, 1, b), Wkk(6, 15, 7), Wnnn(10, nnn),
              Wkk(15, x, 85), Wkk(15, x, 101), Halt(6)>>) :
        <<x, nnn, a, b>> \in {0, 1, 15} \X {768, 4080, 4094, 4095}
                               \X OperandSet \X {9} }

FixedRoms ==
    { \* nested calls and returns
      Bytes(<<Wnnn(2, At(3)), Halt(1), 0, Wnnn(2, At(5)), 238, 238>>),
      \* a subroutine that calls itself
      Bytes(<<Wnnn(2, At(0))>>),
      \* a return with nothing to return to
      Bytes(<<238>>),
      \* a jump to the last two bytes of memory
      Bytes(<<Wnnn(1, 4094)>>),
      \* Bnnn past the end of memory, and within it
      Bytes(<<Wkk(6, 0, 255), Wnnn(11, 4095)>>),
      Bytes(<<Wkk(6, 0, 4), Wnnn(11, At(0)), Halt(2)>>),
      \* Fx1E past 0xFFF, then a store through I
      Bytes(<<Wnnn(10, 4095), Wkk(6, 0, 1), Wkk(15, 0, 30), Wkk(15, 0, 51), Halt(4)>>),
      \* BCD of 254 at 0x300, and at the last bytes of memory
      Bytes(<<Wkk(6, 0, 254), Wnnn(10, 768), Wkk(15, 0, 51), Halt(3)>>),
      Bytes(<<Wkk(6, 0, 254), Wnnn(10, 4094), Wkk(15, 0, 51), Halt(3)>>),
      \* a sprite that runs past the end of memory
      Bytes(<<Wnnn(10, 4095), W(13, 0, 0, 2), Halt(2)>>),
      \* wait for a key into V3
      Bytes(<<Wkk(15, 3, 10), Wkk(6, 1, 1), Halt(2)>>),
      \* the key skips, with a key number and with a value that is none
      Bytes(<<Wkk(6, 0, 7), Wkk(14, 0, 158), Wkk(6, 1, 1), Wkk(14, 0, 161),
              Wkk(6, 2, 1), Halt(5)>>),
      Bytes(<<Wkk(6, 0, 16), Wkk(14, 0, 158), Halt(2)>>),
      Bytes(<<Wkk(6, 0, 255), Wkk(14, 0, 161), Halt(2)>>),
      \* the timers
      Bytes(<<Wkk(6, 0, 3), Wkk(15, 0, 21), Wkk(6, 0, 2), Wkk(15, 0, 24),
              Wkk(15, 1, 7), Halt(5)>>),
      \* the skips
      Bytes(<<Wkk(6, 0, 5), Wkk(3, 0, 5), 0, Wkk(4, 0, 5), W(5, 0, 1, 0),
              W(9, 0, 1, 0), 0, Wkk(3, 0, 6), Wkk(4, 0, 6), 0, W(5, 0, 0, 0), 0,
              W(9, 0, 0, 0), Halt(13)>>),
      \* a random byte
      Bytes(<<Wkk(12, 0, 3), Halt(1)>>),
      \* the other arithmetic
      Bytes(<<Wkk(6, 0, 12), Wkk(6, 1, 10), W(8, 0, 1, 1), W(8, 0, 1, 2),
              W(8, 0, 1, 3), W(8, 2, 1, 0), W(8, 2, 1, 6), W(8, 2, 0, 14),
              Wkk(7, 2, 250), Halt(9)>>),
      \* a font sprite drawn, then the screen cleared
      Bytes(<<Wkk(6, 0, 10), Wkk(15, 0, 41), W(13, 1, 1, 5), 224, Halt(4)>>),
      \* instructions that match no arm
      Bytes(<<W(0, 1, 2, 3), W(5, 0, 1, 1), W(8, 0, 1, 8), W(9, 0, 1, 2),
              W(14, 0, 0, 0), Wkk(15, 0, 255), Halt(6)>>),
      \* a sprite of no rows, twice
      Bytes(<<Wkk(6, 0, 0), Wkk(6, 1, 0), Wkk(6, 2, 0), Wkk(6, 3, 0),
              Wnnn(10, FONT_ADDRESS), W(13, 0, 1, 0), W(13, 0, 1, 0), Halt(7)>>) }

\* An image of len bytes: a jump to itself, zeros, and a last byte of 255.
Image(len) ==
    [i \in 1..len |-> IF i = 1 THEN 18 ELSE IF i = len THEN 255 ELSE 0]

\* The longest image that fits, the shortest that does not, and one as long
\* as the whole memory.
LongRoms ==
    { Image(MEMORY_SIZE - ROM_START_ADDRESS),
      Image(MEMORY_SIZE - ROM_START_ADDRESS + 1),
      Image(MEMORY_SIZE) }

\* 00E0; no draw, one draw, three draws that overlap; 00E0; end.
ClearRoms ==
    { Bytes(<<224, 224, Halt(2)>>),
      Bytes(<<224, Wnnn(10, FONT_ADDRESS + 10), W(13, 0, 0, 5), 224, Halt(4)>>),
      Bytes(<<224, Wnnn(10, FONT_ADDRESS + 10), W(13, 0, 0, 5), Wkk(6, 1, 60),
              W(13, 1, 1, 5), W(13, 0, 1, 3), 224, Halt(7)>>) }

\* 6005: V0 = 5; 6103: V1 = 3; 8014: V0 += V1; and nothing after them.
ScenarioRom == <<96, 5, 97, 3, 128, 20>>

\* Vx = 9; Vy = b; 8xy6 or 8xyE; end.
ShiftRoms ==
    { Bytes(<<Wkk(6, x, 9), Wkk(6, y, b), W(8, x, y, n), Halt(3)>>) :
        <<n, x, y, b>> \in {6, 14} \X RegisterSet \X RegisterSet \X OperandSet }

\* Instruction words that match no arm, of every kind, after some state has
\* been set up: registers, I, a timer, a call, a sprite.
UnknownWords ==
    << W(0, 0, 14, 1), W(0, 0, 14, 15), W(0, 15, 15, 15), W(0, 14, 0, 0),
       W(5, 0, 1, 15), W(5, 0, 0, 1), W(9, 0, 1, 15), W(9, 0, 0, 8),
       W(8, 0, 1, 8), W(8, 0, 1, 9), W(8, 0, 1, 10), W(8, 0, 1, 11),
       W(8, 0, 1, 12), W(8, 0, 1, 13), W(8, 0, 1, 15),
       Wkk(14, 0, 159), Wkk(14, 0, 160), Wkk(14, 0, 255),
       Wkk(15, 0, 0), Wkk(15, 0, 8), Wkk(15, 0, 84), Wkk(15, 0, 102),
       Wkk(15, 0, 117) >>

UnknownRoms ==
    { Bytes(<<Wkk(6, 0, 5), Wkk(6, 1, 7), Wnnn(10, FONT_ADDRESS), Wkk(15, 1, 21),
              W(13, 0, 0, 5), Wnnn(2, At(6))>> \o UnknownWords
            \o <<Halt(6 + Len(UnknownWords))>>) }

\* delay timer = d; sound timer = s; wait for a key into V3; V2 = delay
\* timer; end.
TimerWaitRoms ==
    { Bytes(<<Wkk(6, 0, d), Wkk(15, 0, 21), Wkk(6, 0, s), Wkk(15, 0, 24),
              Wkk(15, 3, 10), Wkk(15, 2, 7), Halt(6)>>) :
        <<d, s>> \in {0, 1, 3} \X {0, 2} }

Roms ==
    AluRoms \cup DrawRoms \cup StoreLoadRoms \cup FixedRoms \cup LongRoms
        \cup ClearRoms \cup {ScenarioRom} \cup ShiftRoms \cup UnknownRoms
        \cup TimerWaitRoms

\* The key states main hands to frame: the keys held down.
PressedSets == {{}, {3, 7}}

KeyboardStateOf(pressed) == [k \in 0..(NUM_KEYS - 1) |-> k \in pressed]

---------------------------------------------------------------------------
(* The state machine *)

NoCycle == [kind |-> "none", instruction |-> 0]

\* The count cycles_run stops at: past it, a cycle is one of the later ones.
MaxCyclesCounted == 4

\* The count of frames in key_wait stops at this.
MaxFramesCounted == 4

\* key_wait while the machine waits for no key.
NoKeyWait == [delay_timer |-> 0, sound_timer |-> 0, frames |-> 0]

\* main up to its loop: the machine is constructed from the rom (line 24), no
\* key is down (line 39).
Start(rom_data) ==
    /\ chip8 = new(rom_data).chip8
    /\ panic = new(rom_data).panic
    /\ keyboard_state = KeyboardStateOf({})
    /\ in_frame = FALSE
    /\ cycles_done = 0
    /\ overflow_checks \in BOOLEAN
    /\ last_cycle = [ kind |-> "none", instruction |-> 0, pc |-> 0,
                      v_registers |-> chip8.v_registers,
                      i_register |-> chip8.i_register,
                      screen |-> chip8.screen,
                      stack_pointer |-> chip8.stack_pointer,
                      prior |-> NoCycle ]
    /\ call_sites = <<>>
    /\ rom = rom_data
    /\ cycles_run = 0
    /\ key_wait = NoKeyWait

Init == \E rom_data \in Roms : Start(rom_data)

\* main's loop: the events of this turn leave the keys in some state, and
\* frame is called with it.
CallFrame ==
    /\ panic = NoPanic
    /\ ~in_frame
    /\ \E pressed \in PressedSets : keyboard_state' = KeyboardStateOf(pressed)
    /\ in_frame' = TRUE
    /\ cycles_done' = 0
    /\ UNCHANGED <<chip8, panic, overflow_checks, last_cycle, call_sites, rom,
                   cycles_run, key_wait>>

\* TRUE when the cycle about to run fetches and decodes an instruction.
Fetches(self) ==
    self.waiting_for_key = None /\ InBounds(self.pc + 1, MEMORY_SIZE)

\* The values random::<u8>() may return, where the cycle calls it.
RandomBytes(self) ==
    IF Fetches(self) /\ HighNibble(self) = 12 THEN 0..(U8 - 1) ELSE {0}

\* What last_cycle records of the cycle that starts in self.
Recorded(self) ==
    [ kind |-> IF self.waiting_for_key # None THEN "wait"
               ELSE IF Fetches(self) THEN "exec" ELSE "nofetch",
      instruction |-> IF Fetches(self) THEN Instruction(self) ELSE 0,
      pc |-> self.pc,
      v_registers |-> self.v_registers,
      i_register |-> self.i_register,
      screen |-> self.screen,
      stack_pointer |-> self.stack_pointer,
      prior |-> [kind |-> last_cycle.kind, instruction |-> last_cycle.instruction] ]

\* The call sites after the cycle that starts in self and ends as o.
CallSitesAfter(self, o) ==
    IF ~Fetches(self) \/ o.panic # NoPanic THEN call_sites
    ELSE IF HighNibble(self) = 2
    THEN Append(call_sites, [addr |-> self.pc, depth |-> self.stack_pointer])
    ELSE IF Instruction(self) = 238 /\ call_sites # <<>>
    THEN SubSeq(call_sites, 1, Len(call_sites) - 1)
    ELSE call_sites

\* key_wait after the cycle that starts in self: an Fx0A records the timers,
\* the cycle that ends the wait forgets them.
KeyWaitAfter(self) ==
    IF Fetches(self) /\ HighNibble(self) = 15 /\ InstrLow(self) = 10
    THEN [delay_timer |-> self.delay_timer, sound_timer |-> self.sound_timer,
          frames |-> 0]
    ELSE IF self.waiting_for_key # None /\ \E k \in DOMAIN keyboard_state : keyboard_state[k]
    THEN NoKeyWait
    ELSE key_wait

\* One iteration of the for loop of frame: self.cycle(keyboard_state).
Cycle ==
    /\ panic = NoPanic
    /\ in_frame
    /\ cycles_done < chip8.cycles_per_frame
    /\ \E random \in RandomBytes(chip8) :
          \E o \in {cycle(chip8, keyboard_state, random, overflow_checks)} :
             /\ chip8' = o.chip8
             /\ panic' = o.panic
             /\ cycles_done' = IF o.panic = NoPanic THEN cycles_done + 1
                               ELSE cycles_done
             /\ call_sites' = CallSitesAfter(chip8, o)
    /\ last_cycle' = Recorded(chip8)
    /\ cycles_run' = IF cycles_run < MaxCyclesCounted THEN cycles_run + 1
                      ELSE cycles_run
    /\ key_wait' = KeyWaitAfter(chip8)
    /\ UNCHANGED <<keyboard_state, in_frame, overflow_checks, rom>>

\* FrameTimers with the timers left alone while the machine waits for a key.
FrameTimers_PausedInWait ==
    /\ panic = NoPanic
    /\ in_frame
    /\ ~(cycles_done < chip8.cycles_per_frame)
    /\ chip8' = IF chip8.waiting_for_key # None THEN chip8
                ELSE [chip8 EXCEPT !.delay_timer = DecrementTimer(@),
                                   !.sound_timer = DecrementTimer(@)]
    /\ in_frame' = FALSE
    /\ cycles_done' = 0
    /\ key_wait' = IF chip8.waiting_for_key # None
                         /\ key_wait.frames < MaxFramesCounted
                    THEN [key_wait EXCEPT !.frames = @ + 1] ELSE key_wait
    /\ UNCHANGED <<keyboard_state, panic, overflow_checks, last_cycle, call_sites,
                   rom, cycles_run>>

\* The loop of frame is over: the timers, and the return to main.
FrameTimers ==
    /\ panic = NoPanic
    /\ in_frame
    /\ ~(cycles_done < chip8.cycles_per_frame)
    /\ chip8' = [chip8 EXCEPT !.delay_timer = DecrementTimer(@),
                              !.sound_timer = DecrementTimer(@)]
    /\ in_frame' = FALSE
    /\ cycles_done' = 0
    /\ key_wait' = IF chip8.waiting_for_key # None
                         /\ key_wait.frames < MaxFramesCounted
                    THEN [key_wait EXCEPT !.frames = @ + 1] ELSE key_wait
    /\ UNCHANGED <<keyboard_state, panic, overflow_checks, last_cycle, call_sites,
                   rom, cycles_run>>

Next == CallFrame \/ Cycle \/ FrameTimers

Spec == Init /\ [][Next]_vars

\* main's loop has no exit but the quit event and a panic: while the process
\* lives, the next frame is called, its cycles run and it returns.
\* The programs that wait for a key are the ones run under it.
KeyWaitInit == \E rom_data \in TimerWaitRoms : Start(rom_data)

FairSpec ==
    /\ KeyWaitInit
    /\ [][Next]_vars
    /\ WF_vars(CallFrame) /\ WF_vars(Cycle) /\ WF_vars(FrameTimers)

---------------------------------------------------------------------------
(* Properties *)

\* A step of Cycle: both CallFrame and FrameTimers change in_frame.
IsCycleStep == in_frame /\ in_frame'

\* The cycle about to run executes an instruction of the form 8xyN.
Executes8xy(n) ==
    Fetches(chip8) /\ HighNibble(chip8) = 8 /\ LowNibble(chip8) = n

\* Vx and Vy before the instruction about to run.
Vx == chip8.v_registers[X(chip8)]

Vy == chip8.v_registers[Y(chip8)]

\* C1: executing 8xy5 leaves VF = 1 if the Vx before the instruction is
\* strictly greater than the Vy before it and VF = 0 otherwise, for all x
\* and y; and for x other than 0xF it leaves Vx = (Vx - Vy) mod 256, taken
\* from the values before the instruction.
C1_Sub8xy5 ==
    [][ (IsCycleStep /\ Executes8xy(5)) =>
            /\ panic' = NoPanic
            /\ chip8'.v_registers[15] = (IF Vx > Vy THEN 1 ELSE 0)
            /\ X(chip8) # 15 =>
                  chip8'.v_registers[X(chip8)] = (Vx - Vy) % 256 ]_vars

\* C2: executing 8xy4 leaves VF = 1 if the sum of the Vx and Vy before the
\* instruction exceeds 255 and VF = 0 otherwise, for all x and y (0xF
\* included); and for x other than 0xF it leaves Vx = that sum mod 256.
C2_Add8xy4 ==
    [][ (IsCycleStep /\ Executes8xy(4)) =>
            /\ panic' = NoPanic
            /\ chip8'.v_registers[15] = (IF Vx + Vy > 255 THEN 1 ELSE 0)
            /\ X(chip8) # 15 =>
                  chip8'.v_registers[X(chip8)] = (Vx + Vy) % 256 ]_vars

\* C3: executing 8xy7 leaves VF = 1 if the Vy before the instruction is
\* strictly greater than the Vx before it and VF = 0 otherwise, for all x
\* and y; and for x other than 0xF it leaves Vx = (Vy - Vx) mod 256, taken
\* from the values of both registers before the instruction, also when y is
\* 0xF.
C3_SubN8xy7 ==
    [][ (IsCycleStep /\ Executes8xy(7)) =>
            /\ panic' = NoPanic
            /\ chip8'.v_registers[15] = (IF Vy > Vx THEN 1 ELSE 0)
            /\ X(chip8) # 15 =>
                  chip8'.v_registers[X(chip8)] = (Vy - Vx) % 256 ]_vars

\* C4: a 00EE that matches a 2nnn executed at address a (with fewer than 16
\* addresses stacked) leaves pc = a + 2 and the stack depth at its value
\* before that 2nnn, whatever balanced calls and returns ran in between.
C4_CallReturnRoundTrip ==
    [][ (IsCycleStep /\ Fetches(chip8) /\ Instruction(chip8) = 238
            /\ call_sites # <<>>) =>
            LET site == call_sites[Len(call_sites)]
            IN /\ panic' = NoPanic
               /\ chip8'.pc = site.addr + 2
               /\ chip8'.stack_pointer = site.depth ]_vars

\* An inner subroutine has returned into an outer one that is still running.
C4_Witness ==
    /\ panic = NoPanic
    /\ last_cycle.kind = "exec"
    /\ last_cycle.instruction = 238
    /\ last_cycle.stack_pointer = 2
    /\ Len(call_sites) = 1
    /\ chip8.pc = At(4)

\* The indices into memory that the cycle about to run evaluates if nothing
\* stops it: the fetch, and the accesses through i_register.
MemoryIndices(self) ==
    IF self.waiting_for_key # None THEN {}
    ELSE {self.pc + 1, self.pc} \cup
         IF ~Fetches(self) THEN {}
         ELSE IF HighNibble(self) = 13
              THEN {self.i_register + iy : iy \in 0..(LowNibble(self) - 1)}
         ELSE IF HighNibble(self) = 15 /\ InstrLow(self) = 51
              THEN {self.i_register, self.i_register + 1, self.i_register + 2}
         ELSE IF HighNibble(self) = 15 /\ InstrLow(self) \in {85, 101}
              THEN {self.i_register + i : i \in 0..X(self)}
         ELSE {}

\* C5: every memory access of a cycle (the fetch at pc and pc + 1, the
\* accesses of Dxyn, Fx33, Fx55 and Fx65 through i_register) uses an index
\* within 0..4095, or the cycle ends in a defined failure: a panic, raised
\* before any access out of bounds.  Memory stays the 4096 bytes it is.
C5_MemorySafety ==
    /\ [](DOMAIN chip8.memory \subseteq 0..(MEMORY_SIZE - 1))
    /\ [][ IsCycleStep =>
            \/ \A a \in MemoryIndices(chip8) : InBounds(a, MEMORY_SIZE)
            \/ panic' # NoPanic ]_vars

\* pc has run past the end of memory and the fetch there was refused.
C5_Witness ==
    /\ panic = MemoryIndexPanic
    /\ chip8.pc = MEMORY_SIZE
    /\ last_cycle.kind = "nofetch"

\* C6: the stack pointer is between 0 and 16 in every reachable state, and
\* neither a 2nnn with 16 addresses stacked nor a 00EE with none indexes
\* outside the stack, wraps the stack pointer below zero or crashes the host.
C6_StackBound ==
    /\ chip8.stack_pointer \in 0..STACK_SIZE
    /\ panic \notin {StackIndexPanic, SubOverflowPanic}

Max(a, b) == IF a > b THEN a ELSE b

\* The cycle about to run executes Fxkk.
ExecutesFx(kk) ==
    Fetches(chip8) /\ HighNibble(chip8) = 15 /\ InstrLow(chip8) = kk

\* C7: a call of frame runs cycle exactly cycles_per_frame times (a cycle
\* that only services a key wait counts), and only then sets each timer to
\* max(t - 1, 0), t being its value when the cycles are over; no timer goes
\* below 0 or wraps to 255, and the cycles change a timer only by Fx15, Fx18.
C7_FrameCyclesAndTimers ==
    /\ [](chip8.delay_timer \in 0..255 /\ chip8.sound_timer \in 0..255)
    /\ [][ (in_frame /\ ~in_frame') =>
            /\ cycles_done = chip8.cycles_per_frame
            /\ chip8.cycles_per_frame = CYCLES_PER_FRAME
            /\ chip8' = [chip8 EXCEPT
                            !.delay_timer = Max(chip8.delay_timer - 1, 0),
                            !.sound_timer = Max(chip8.sound_timer - 1, 0)] ]_vars
    /\ [][ (IsCycleStep /\ panic' = NoPanic) =>
            /\ cycles_done' = cycles_done + 1
            /\ cycles_done' <= chip8.cycles_per_frame
            /\ ExecutesFx(21) \/ chip8'.delay_timer = chip8.delay_timer
            /\ ExecutesFx(24) \/ chip8'.sound_timer = chip8.sound_timer ]_vars
    /\ [][ (~in_frame /\ in_frame') => cycles_done' = 0 /\ chip8' = chip8 ]_vars

\* A frame has returned with the delay timer taken from 3 to 2 and the sound
\* timer from 2 to 1.
C7_Witness ==
    /\ ~in_frame
    /\ panic = NoPanic
    /\ last_cycle.kind = "exec"
    /\ chip8.v_registers[1] = 3
    /\ chip8.delay_timer = 2
    /\ chip8.sound_timer = 1

\* The pixels a Dxyn with the operands vx, vy and n rows covers.
SpritePixels(vx, vy, n) ==
    { ((vy + r) % SCREEN_HEIGHT) * SCREEN_WIDTH + ((vx + c) % SCREEN_WIDTH) :
        r \in 0..(n - 1), c \in 0..7 }

\* The cycle about to run executes the Dxyn that the cycle before it
\* executed, with the same i_register, Vx and Vy, on a screen whose pixels
\* under the sprite were unlit before the first of the two.
SecondDraw ==
    /\ Fetches(chip8) /\ HighNibble(chip8) = 13
    /\ last_cycle.kind = "exec"
    /\ last_cycle.instruction = Instruction(chip8)
    /\ last_cycle.i_register = chip8.i_register
    /\ last_cycle.v_registers[X(chip8)] = Vx
    /\ last_cycle.v_registers[Y(chip8)] = Vy
    /\ \A p \in SpritePixels(Vx, Vy, LowNibble(chip8)) : Get(last_cycle.screen, p) = 0

\* C8: any Dxyn executed twice in succession with the same i_register, Vx,
\* Vy and memory, on pixels unlit before the first draw, leaves the screen
\* as it was before the first draw and VF = 1.
C8_DrawTwice ==
    [][ (IsCycleStep /\ SecondDraw) =>
            /\ panic' = NoPanic
            /\ chip8'.screen = last_cycle.screen
            /\ chip8'.v_registers[15] = 1 ]_vars

\* C9: Fx55 and then Fx65 as consecutive instructions, with the same x and
\* i_register + x <= 4095, leave V0..Vx at their values before the Fx55,
\* i_register as it was, and V(x+1)..VF unchanged.
C9_StoreLoadRoundTrip ==
    [][ (IsCycleStep /\ ExecutesFx(101)
            /\ last_cycle.kind = "exec"
            /\ last_cycle.instruction = Wkk(15, X(chip8), 85)
            /\ last_cycle.i_register + X(chip8) <= MEMORY_SIZE - 1) =>
            /\ panic' = NoPanic
            /\ chip8'.v_registers = last_cycle.v_registers
            /\ chip8'.i_register = last_cycle.i_register ]_vars

\* FF55 then FF65 have run with the sixteen bytes ending at the last byte of
\* memory.
C9_Witness ==
    /\ panic = NoPanic
    /\ last_cycle.kind = "exec"
    /\ last_cycle.instruction = Wkk(15, 15, 101)
    /\ last_cycle.prior = [kind |-> "exec", instruction |-> Wkk(15, 15, 85)]
    /\ last_cycle.i_register = MEMORY_SIZE - 16
    /\ chip8.v_registers[0] = 255
    /\ chip8.v_registers[15] = 7

NoKeyPressed == \A k \in DOMAIN keyboard_state : ~keyboard_state[k]

\* C10: while waiting_for_key is set and no key is pressed, a cycle fetches
\* no instruction and changes nothing of the machine.
C10_KeyWaitIdle ==
    [][ (IsCycleStep /\ chip8.waiting_for_key # None /\ NoKeyPressed) =>
            /\ chip8' = chip8
            /\ panic' = NoPanic
            /\ last_cycle'.kind = "wait" ]_vars

\* Two cycles in a row have waited for a key with none pressed.
C10_Witness ==
    /\ in_frame
    /\ cycles_done >= 3
    /\ NoKeyPressed
    /\ chip8.waiting_for_key = Some(3)
    /\ last_cycle.kind = "wait"
    /\ last_cycle.prior.kind = "wait"
    /\ chip8.pc = At(1)

\* C11: constructing a machine from an image longer than 4096 - 0x200 bytes
\* does not crash the host (it fails with an error outcome, or truncates) and
\* writes nothing outside the 4096 bytes of memory.
C11_NewOversizedImage ==
    Len(rom) > MEMORY_SIZE - ROM_START_ADDRESS =>
        /\ panic = NoPanic
        /\ DOMAIN chip8.memory \subseteq 0..(MEMORY_SIZE - 1)

\* The cycle about to run executes exactly this instruction word.
ExecutesWord(word) == Fetches(chip8) /\ Instruction(chip8) = word

\* C12: after 00E0 every pixel of the screen is unlit, whatever was drawn
\* before it: the screen is again the screen of the machine as constructed;
\* and 00E0 changes nothing but the screen and pc.
C12_ClearScreen ==
    /\ [](last_cycle.kind = "none" =>
            \A p \in 0..(SCREEN_MEM_SIZE - 1) : Get(chip8.screen, p) = 0)
    /\ [][ (IsCycleStep /\ ExecutesWord(224)) =>
            /\ panic' = NoPanic
            /\ \A p \in 0..(SCREEN_MEM_SIZE - 1) : Get(chip8'.screen, p) = 0
            /\ chip8'.screen = new(rom).chip8.screen
            /\ chip8' = [chip8 EXCEPT !.screen = chip8'.screen,
                                      !.pc = chip8.pc + 2] ]_vars

\* 00E0 has cleared a screen on which three sprites had been drawn.
C12_Witness ==
    /\ panic = NoPanic
    /\ last_cycle.kind = "exec"
    /\ last_cycle.instruction = 224
    /\ last_cycle.prior = [kind |-> "exec", instruction |-> W(13, 0, 1, 3)]
    /\ Cardinality(DOMAIN last_cycle.screen) > 20
    /\ chip8.screen = Zeroed

\* C13: the machine constructed from the bytes 60 05 61 03 80 14 has, after
\* exactly 3 cycles, V0 = 8, V1 = 3, VF = 0 and pc = 0x200 + 6; and every 6xkk
\* and every 8xy4 advances pc by exactly 2, 6xkk changing only Vx and pc.
C13_AddScenario ==
    /\ []((rom = ScenarioRom /\ cycles_run = 3) =>
            /\ panic = NoPanic
            /\ chip8.v_registers[0] = 8
            /\ chip8.v_registers[1] = 3
            /\ chip8.v_registers[15] = 0
            /\ chip8.pc = ROM_START_ADDRESS + 6)
    /\ [][ (IsCycleStep /\ Fetches(chip8) /\ HighNibble(chip8) = 6) =>
            /\ panic' = NoPanic
            /\ chip8' = [chip8 EXCEPT
                            !.v_registers[X(chip8)] = chip8'.v_registers[X(chip8)],
                            !.pc = chip8.pc + 2] ]_vars
    /\ [][ (IsCycleStep /\ Executes8xy(4)) =>
            /\ panic' = NoPanic
            /\ chip8'.pc = chip8.pc + 2 ]_vars

\* The third cycle of the scenario was the 8014 at 0x204.
C13_Witness ==
    /\ rom = ScenarioRom
    /\ cycles_run = 3
    /\ last_cycle.kind = "exec"
    /\ last_cycle.instruction = W(8, 0, 1, 4)
    /\ last_cycle.pc = ROM_START_ADDRESS + 4
    /\ last_cycle.v_registers[0] = 5
    /\ chip8.v_registers[0] = 8

\* The screen index of the pixel at column px, row py, each wrapped.
PixelIndex(px, py) == (py % SCREEN_HEIGHT) * SCREEN_WIDTH + (px % SCREEN_WIDTH)

\* The pixels under the set bits of the sprite the Dxyn about to run draws,
\* placed by the values Vx and Vy have before the instruction.
SetPixels ==
    { PixelIndex(Vx + rc[2], Vy + rc[1]) :
        rc \in { p \in (0..(LowNibble(chip8) - 1)) \X (0..7) :
                    Bit(Get(chip8.memory, chip8.i_register + p[1]), 7 - p[2]) = 1 } }

\* C14: Dxyn with i_register + n <= 4096 XORs bit (7 - c) of memory[I + r]
\* into the pixel at ((Vx + c) mod 64, (Vy + r) mod 32) for every row r and
\* column c, Vx and Vy being the values before the instruction for every x
\* and y (0xF included) and every value in 0..255; no other pixel changes;
\* VF ends 1 if a pixel went from lit to unlit and 0 otherwise.
C14_DrawSprite ==
    [][ (IsCycleStep /\ Fetches(chip8) /\ HighNibble(chip8) = 13
            /\ chip8.i_register + LowNibble(chip8) <= MEMORY_SIZE) =>
            /\ panic' = NoPanic
            /\ \A p \in SetPixels \cup DOMAIN chip8.screen \cup DOMAIN chip8'.screen :
                  Get(chip8'.screen, p) =
                      IF p \in SetPixels THEN 255 - Get(chip8.screen, p)
                      ELSE Get(chip8.screen, p)
            /\ chip8'.v_registers[15] =
                  (IF \E p \in SetPixels : Get(chip8.screen, p) = 255 THEN 1 ELSE 0)
       ]_vars

\* The register the machine is waiting to fill, and the lowest key down.
WaitingRegister == CHOOSE reg \in chip8.waiting_for_key : TRUE

LowestPressed ==
    CHOOSE k \in 0..(NUM_KEYS - 1) :
        keyboard_state[k] /\ \A j \in 0..(NUM_KEYS - 1) : keyboard_state[j] => k <= j

\* C15: Fx0A sets the wait for Vx and moves on to the next address; while the
\* wait is set no instruction is fetched or executed; a cycle given a pressed
\* key (also one held since before the Fx0A) stores the lowest pressed key
\* in Vx, clears the wait and does nothing else; the cycle after it fetches
\* at the address right after the Fx0A.
C15_KeyWaitProtocol ==
    /\ [][ (IsCycleStep /\ ExecutesFx(10)) =>
            /\ panic' = NoPanic
            /\ chip8' = [chip8 EXCEPT !.waiting_for_key = {X(chip8)},
                                      !.pc = chip8.pc + 2] ]_vars
    /\ [](chip8.waiting_for_key # None =>
            /\ Cardinality(chip8.waiting_for_key) = 1
            /\ Get(chip8.memory, chip8.pc - 2) = 240 + WaitingRegister
            /\ Get(chip8.memory, chip8.pc - 1) = 10)
    /\ [][ (IsCycleStep /\ chip8.waiting_for_key # None) =>
            /\ panic' = NoPanic
            /\ last_cycle'.kind = "wait"
            /\ IF NoKeyPressed THEN chip8' = chip8
               ELSE chip8' = [chip8 EXCEPT
                                !.v_registers[WaitingRegister] = LowestPressed,
                                !.waiting_for_key = None] ]_vars
    /\ [][ (IsCycleStep /\ last_cycle.kind = "wait"
                /\ chip8.waiting_for_key = None) =>
            /\ last_cycle'.kind # "wait"
            /\ last_cycle'.pc = last_cycle.pc ]_vars

\* F30A ran with keys 3 and 7 held, the next cycle put 3 in V3, and the third
\* cycle ran the 6101 that follows the F30A.
C15_Witness ==
    /\ panic = NoPanic
    /\ cycles_run = 3
    /\ keyboard_state[3] /\ keyboard_state[7]
    /\ last_cycle.kind = "exec"
    /\ last_cycle.instruction = Wkk(6, 1, 1)
    /\ last_cycle.pc = At(1)
    /\ last_cycle.prior.kind = "wait"
    /\ chip8.waiting_for_key = None
    /\ chip8.v_registers[3] = 3

\* The address nnn of the instruction about to run.
Nnn == Instruction(chip8) % 4096

\* The cycle about to run executes an instruction with this high nibble.
ExecutesHigh(nibble) == Fetches(chip8) /\ HighNibble(chip8) = nibble

\* C16 as the code has it: 1nnn, 2nnn and Bnnn end the cycle with pc = nnn,
\* nnn and nnn + V0, no increment applied; 2nnn executed at address a (with
\* fewer than 16 addresses stacked) pushes a itself; 00EE (with an address
\* stacked) ends the cycle with pc = the popped value + 2.
C16_ControlFlowPc ==
    /\ [][ (IsCycleStep /\ ExecutesHigh(1)) =>
            panic' = NoPanic /\ chip8'.pc = Nnn ]_vars
    /\ [][ (IsCycleStep /\ ExecutesHigh(2) /\ chip8.stack_pointer < STACK_SIZE) =>
            /\ panic' = NoPanic
            /\ chip8'.stack = [chip8.stack EXCEPT ![chip8.stack_pointer] = chip8.pc]
            /\ chip8'.stack_pointer = chip8.stack_pointer + 1
            /\ chip8'.pc = Nnn ]_vars
    /\ [][ (IsCycleStep /\ ExecutesHigh(11)) =>
            panic' = NoPanic /\ chip8'.pc = Nnn + chip8.v_registers[0] ]_vars
    /\ [][ (IsCycleStep /\ ExecutesWord(238)
                /\ chip8.stack_pointer \in 1..STACK_SIZE) =>
            /\ panic' = NoPanic
            /\ chip8'.stack_pointer = chip8.stack_pointer - 1
            /\ chip8'.pc = chip8.stack[chip8.stack_pointer - 1] + 2 ]_vars

\* C16 as stated: 2nnn executed at address a pushes a + 2 and sets pc = nnn;
\* 1nnn, 2nnn, Bnnn and 00EE end the cycle with pc = nnn, nnn, nnn + V0 and
\* the popped value, no increment of 2 applied.
C16_ControlFlowPc_AsStated ==
    /\ [][ (IsCycleStep /\ ExecutesHigh(1)) =>
            panic' = NoPanic /\ chip8'.pc = Nnn ]_vars
    /\ [][ (IsCycleStep /\ ExecutesHigh(2) /\ chip8.stack_pointer < STACK_SIZE) =>
            /\ panic' = NoPanic
            /\ chip8'.stack = [chip8.stack EXCEPT ![chip8.stack_pointer] = chip8.pc + 2]
            /\ chip8'.stack_pointer = chip8.stack_pointer + 1
            /\ chip8'.pc = Nnn ]_vars
    /\ [][ (IsCycleStep /\ ExecutesHigh(11)) =>
            panic' = NoPanic /\ chip8'.pc = Nnn + chip8.v_registers[0] ]_vars
    /\ [][ (IsCycleStep /\ ExecutesWord(238)
                /\ chip8.stack_pointer \in 1..STACK_SIZE) =>
            /\ panic' = NoPanic
            /\ chip8'.stack_pointer = chip8.stack_pointer - 1
            /\ chip8'.pc = chip8.stack[chip8.stack_pointer - 1] ]_vars

\* The call at the fourth instruction has been returned from: its own address
\* is what the stack held, and pc is 2 past it.
C16_Witness ==
    /\ panic = NoPanic
    /\ last_cycle.kind = "exec"
    /\ last_cycle.instruction = 238
    /\ last_cycle.stack_pointer = 2
    /\ chip8.stack_pointer = 1
    /\ chip8.stack[1] = At(3)
    /\ chip8.pc = At(3) + 2

\* The operand of the shift about to run, before it: Vy, or Vx in the
\* alternative shift mode.
ShiftOperand == IF chip8.alternative_shift_mode THEN Vx ELSE Vy

\* C17: for x other than 0xF and every y (0xF included), 8xy6 leaves
\* VF = operand & 1 and Vx = operand >> 1, and 8xyE leaves VF = operand & 0x80
\* and Vx = (operand << 1) mod 256, the operand being the value Vy (Vx in the
\* alternative mode) has before the instruction, in the flag and in the result.
C17_Shifts ==
    /\ [][ (IsCycleStep /\ Executes8xy(6) /\ X(chip8) # 15) =>
            /\ panic' = NoPanic
            /\ chip8'.v_registers[15] = ShiftOperand % 2
            /\ chip8'.v_registers[X(chip8)] = ShiftOperand \div 2 ]_vars
    /\ [][ (IsCycleStep /\ Executes8xy(14) /\ X(chip8) # 15) =>
            /\ panic' = NoPanic
            /\ chip8'.v_registers[15] = (ShiftOperand \div 128) * 128
            /\ chip8'.v_registers[X(chip8)] = (ShiftOperand * 2) % 256 ]_vars

\* The words the instruction set gives no meaning: 0nnn other than 00E0 and
\* 00EE, 5xyN and 9xyN with N not 0, 8xyN with N in 8..0xD or 0xF, Exkk other
\* than Ex9E and ExA1, and Fxkk with kk none of the nine defined.
MatchesNoOpcode(self) ==
    \/ HighNibble(self) = 0 /\ Instruction(self) \notin {224, 238}
    \/ HighNibble(self) \in {5, 9} /\ LowNibble(self) # 0
    \/ HighNibble(self) = 8 /\ LowNibble(self) \in (8..13) \cup {15}
    \/ HighNibble(self) = 14 /\ InstrLow(self) \notin {158, 161}
    \/ HighNibble(self) = 15
            /\ InstrLow(self) \notin {7, 10, 21, 24, 30, 41, 51, 85, 101}

\* C18: an instruction that matches no defined opcode is a no-op: the cycle
\* advances pc by exactly 2 and changes nothing else of the machine, without
\* failing.
C18_UnknownIsNoOp ==
    [][ (IsCycleStep /\ Fetches(chip8) /\ MatchesNoOpcode(chip8)) =>
            /\ panic' = NoPanic
            /\ chip8' = [chip8 EXCEPT !.pc = chip8.pc + 2] ]_vars

\* 8x1F has run as a no-op in a subroutine, with registers, I, the delay
\* timer and the screen all set.
C18_Witness ==
    /\ panic = NoPanic
    /\ last_cycle.kind = "exec"
    /\ last_cycle.instruction = W(8, 0, 1, 15)
    /\ chip8.pc = last_cycle.pc + 2
    /\ chip8.v_registers[0] = 5
    /\ chip8.v_registers[1] = 7
    /\ chip8.i_register = FONT_ADDRESS
    /\ chip8.stack_pointer = 1
    /\ chip8.screen # Zeroed

\* Key number v is pressed; a number that is no key is not.
KeyDown(v) == v < NUM_KEYS /\ keyboard_state[v]

\* C19: Ex9E and ExA1 complete without failure for every value of Vx in
\* 0..255 and every key state: Ex9E advances pc by 4 if key Vx is pressed and
\* by 2 otherwise, ExA1 by 4 if it is not pressed and by 2 otherwise, and
\* neither changes anything but pc.
C19_KeySkips ==
    [][ (IsCycleStep /\ ExecutesHigh(14) /\ InstrLow(chip8) \in {158, 161}) =>
            /\ panic' = NoPanic
            /\ chip8' = [chip8 EXCEPT !.pc =
                            chip8.pc + (IF (InstrLow(chip8) = 158) = KeyDown(Vx)
                                        THEN 4 ELSE 2)] ]_vars

\* C20: while the machine waits for a key and none is pressed, every frame
\* still takes 1 from each timer that is not 0 and leaves the rest of the
\* machine alone, and its cycles change nothing; so a timer that was v when
\* the Fx0A ran is max(v - f, 0) after f frames of waiting, and a timer that
\* is not 0 reaches 0 unless the wait ends first.
C20_TimersDuringKeyWait ==
    /\ [][ (in_frame /\ ~in_frame' /\ chip8.waiting_for_key # None) =>
            chip8' = [chip8 EXCEPT
                        !.delay_timer = Max(chip8.delay_timer - 1, 0),
                        !.sound_timer = Max(chip8.sound_timer - 1, 0)] ]_vars
    /\ [][ (chip8.waiting_for_key # None /\ NoKeyPressed' /\ in_frame') =>
            chip8' = chip8 ]_vars
    /\ []((chip8.waiting_for_key # None /\ key_wait.frames < MaxFramesCounted) =>
            /\ chip8.delay_timer = Max(key_wait.delay_timer - key_wait.frames, 0)
            /\ chip8.sound_timer = Max(key_wait.sound_timer - key_wait.frames, 0))
    /\ (chip8.waiting_for_key # None /\ chip8.delay_timer > 0)
            ~> (chip8.delay_timer = 0 \/ chip8.waiting_for_key = None)
    /\ (chip8.waiting_for_key # None /\ chip8.sound_timer > 0)
            ~> (chip8.sound_timer = 0 \/ chip8.waiting_for_key = None)

\* Three frames have returned since the FX0A ran with the delay timer at 3
\* and the sound timer at 2, no key pressed: both timers are 0.
C20_Witness ==
    /\ ~in_frame
    /\ panic = NoPanic
    /\ NoKeyPressed
    /\ chip8.waiting_for_key = Some(3)
    /\ key_wait = [delay_timer |-> 3, sound_timer |-> 2, frames |-> 3]
    /\ chip8.delay_timer = 0
    /\ chip8.sound_timer = 0
    /\ chip8.pc = At(5)

=============================================================================
